---- MODULE Spec2Model ----
(***************************************************************************)
(* The asynchronous fit-execution subsystem of refl1d's GUI:               *)
(*   - FitThread (gui/fit_thread.py): the background unit that deep-copies  *)
(*     the problem, runs the fit driver and relays monitor output to the    *)
(*     primary (wx) context as posted events;                               *)
(*   - the three monitors FitThread registers (GUIProgressMonitor,          *)
(*     GUIMonitor around the convergence monitor, DreamMonitor);            *)
(*   - AppPanel.OnFit (gui/app_panel.py): the second way a fit is started,  *)
(*     through a Worker and app_panel's own GUIMonitor.                     *)
(* Time is counted in ticks of half a second, so that the half-second step  *)
(* of the monitor scenario is representable: Seconds(n) is n seconds.       *)
(***************************************************************************)
EXTENDS Integers, Sequences, FiniteSets, TLC

VARIABLES
    route,      \* how the fit was started: "FitThread", "Worker" or "Harness"
    pc,         \* position of the background unit in its run; "raised_*" is a
                \* run ended by an exception that nothing in run handles
    options,    \* FitThread.options: "None" (the constructor default) or "dict"
    algKind,    \* History.uncertainty_state of the algorithm: "blob", "none", "absent"
    cfg,        \* (progress, improvement) arguments of the TimedUpdate monitor, 0 = None
    orig,       \* parameter values of the caller's original Problem
    snap,       \* parameter values of the private deep copy (as far as copied)
    edits,      \* number of edits the primary context has made
    hist,       \* the most recent History record
    prog,       \* state of the TimedUpdate monitor (progress / improvement)
    conv,       \* state of fit_thread.GUIMonitor and of the monitor it wraps
    dream,      \* state of DreamMonitor
    queue,      \* events posted to the primary context and not yet handled
    delivered,  \* events the primary context has handled, in order
    finals,     \* number of final() calls per registered monitor
    result,     \* what driver.fit() returned
    bgWrites,   \* Problem objects written by the background unit
    uiTouched,  \* Problem objects read or written by the primary context in flight
    feed,       \* the History records produced so far: their time and value
    mapper,     \* the batch the evaluation mapper is working on
    mapperArg,  \* the mapper argument of the constructor: FitThread.mapper
    started,    \* the mapper run has started, and the Problem it was given
    intervals,  \* arguments and effective intervals of directly built monitors
    panel       \* AppPanel: status text, fit_complete messages, remember_best calls

vars == <<route, pc, options, algKind, cfg, orig, snap, edits, hist, prog, conv,
          dream, queue, delivered, finals, result, bgWrites, uiTouched, feed,
          mapper, mapperArg, started, intervals, panel>>

----------------------------------------------------------------------------
\* Bounds of the model.

\* History records an algorithm produces in one run.
MaxSteps == 3
\* Edits of the original Problem by the primary context during one run.
MaxEdits == 1

\* History records fed to a monitor by the synthetic stream.
MaxFeed == 4

\* Time advance between two History records, in ticks (non-decreasing time).
DtSet == {0, 16}
\* The same for the synthetic stream: half a second, 1.5 s and 8 s steps give
\* records at 0 s, 0.5 s, 2 s and 10 s.
FeedDtSet == {0, 1, 3, 16}
\* (progress, improvement) arguments of a directly constructed
\* GUIProgressMonitor, in seconds; 0 stands for None.
FeedConfigs == {[progress |-> 0, improvement |-> 0],
                [progress |-> 5, improvement |-> 1]}
\* Points of one batch handed to the mapper.
MaxBatch == 3
\* The parameter values of the points of a batch, and the cost functions.
BatchValues == {0, 1, 3}
CostFunctions == {"quadratic", "linear"}
\* Interval arguments a monitor can be constructed with, in seconds; 0 stands
\* for None and for 0, which Python's "or" treats alike.
RateArgs == {0 - 1, 0, 1, 5}
\* The mapper argument FitThread can be constructed with.
MapperArgs == {"None", "SerialMapper", "MPMapper"}
\* Values a user edit can give a parameter; every Problem has two parameters.
ParamIdx == {1, 2}
ParamValues == {0, 1}
\* The original Problem as loaded.
Orig0 == <<0, 0>>

----------------------------------------------------------------------------
\* Program constants.

Seconds(n) == 2 * n
PROGRESS_DELAY == 5
IMPROVEMENT_DELAY == 5
GUIMonitorDefaultRate == 10
DreamMonitorDefaultRate == 60
\* The rates FitThread.run passes to its monitors.
ConvergenceRate == 5
UncertaintyRate == 15
\* The intervals app_panel.GUIMonitor passes to TimedUpdate.
AppProgress == 1
AppImprovement == 15

\* As OrDefault, but nothing is replaced.
OrDefaultMutant(x, d) == x
\* Python's "x or default": None and 0 are both replaced.
OrDefault(x, d) == IF x = 0 THEN d ELSE x

\* GUIProgressMonitor.__init__: the intervals handed to TimedUpdate.
ProgressIntervalMutant(arg) == Seconds(arg)
ProgressInterval(arg) == Seconds(OrDefault(arg, PROGRESS_DELAY))
ImprovementIntervalMutant(arg) == Seconds(arg)
ImprovementInterval(arg) == Seconds(OrDefault(arg, IMPROVEMENT_DELAY))
\* GUIMonitor.__init__ / DreamMonitor.__init__: self.rate.
GUIMonitorRate(arg) == Seconds(OrDefault(arg, GUIMonitorDefaultRate))
DreamMonitorRate(arg) == Seconds(OrDefault(arg, DreamMonitorDefaultRate))

\* The four intervals of the monitors, by name.
IntervalNames == {"progress", "improvement", "convergence", "uncertainty"}
\* The __init__ of the three monitor classes: the intervals they keep.
EffectiveIntervals(args) ==
    [progress |-> ProgressInterval(args.progress),
     improvement |-> ImprovementInterval(args.improvement),
     convergence |-> GUIMonitorRate(args.convergence),
     uncertainty |-> DreamMonitorRate(args.uncertainty)]
\* No monitor has been built directly.
NoIntervals ==
    [built |-> FALSE, args |-> [n \in IntervalNames |-> 0],
     eff |-> [n \in IntervalNames |-> 0]]

----------------------------------------------------------------------------
\* Values.

\* The cost at the starting point; TimedUpdate starts from +infinity.
StartValue == MaxSteps + 1
Infinity == StartValue + 1
\* The best point of the algorithm, one per best value.
PointOf(v) == <<v + 2, v + 2>>
\* point + 0: a fresh array with the same entries.
CopyPoint(p) == [i \in DOMAIN p |-> p[i] + 0]

NoHist == [step |-> 0, time |-> 0, value |-> StartValue,
           point |-> PointOf(StartValue), has_ustate |-> FALSE, ustate |-> 0]

\* The event objects (FitProgressEvent, FitCompleteEvent, wx.CallAfter calls).
\* rec is the step of the History record the event was made from.
Event(kind, msg, prob, h, fin) ==
    [kind |-> kind, message |-> msg, problem |-> prob, step |-> h.step,
     value |-> h.value, point |-> CopyPoint(h.point), state |-> 0,
     summary |-> 0, rec |-> h.step, final |-> fin]

\* The problem FitThread.run hands to its monitors and puts in the complete
\* event: self.problem, the original, never the private copy.
MonitorProblemMutant == "copy"
MonitorProblem == "orig"

\* wx.PostEvent / wx.CallAfter: the event goes to the end of the queue.
PostEventMutant(q, evs) == evs \o q
PostEvent(q, evs) == q \o evs

----------------------------------------------------------------------------
\* monitor.TimedUpdate, the base of GUIProgressMonitor and app_panel.GUIMonitor.

TimedUpdateInit ==
    [pfired |-> FALSE, ptime |-> 0, ifired |-> FALSE, itime |-> 0,
     value |-> Infinity, improved |-> FALSE]

\* GUIProgressMonitor.show_progress / show_improvement.
ShowProgress(h) == Event("progress", "progress", MonitorProblem, h, FALSE)
ShowImprovement(h) == Event("progress", "improvement", MonitorProblem, h, FALSE)

\* app_panel.GUIMonitor.show_progress / show_improvement: the messages handed
\* to wx.CallAfter (show_improvement also writes self.problem, see WorkerStep).
AppShowProgress(h) == Event("call", "update", "none", h, FALSE)
AppShowImprovement(h) == Event("call", "update_plot", "none", h, FALSE)

\* TimedUpdate.__call__: which of the two callbacks fire for a record.
ProgressDue(st, h, pint) == ~st.pfired \/ h.time >= st.ptime + pint
ImprovedNow(st, h) == st.improved \/ h.value < st.value
ImprovementDue(st, h, iint) ==
    ImprovedNow(st, h) /\ (~st.ifired \/ h.time >= st.itime + iint)

TimedUpdateCall(st, h, pint, iint) ==
    LET p == ProgressDue(st, h, pint)
        i == ImprovementDue(st, h, iint)
    IN [st |-> [pfired |-> st.pfired \/ p,
                ptime |-> IF p THEN h.time ELSE st.ptime,
                ifired |-> st.ifired \/ i,
                itime |-> IF i THEN h.time ELSE st.itime,
                value |-> IF h.value < st.value THEN h.value ELSE st.value,
                improved |-> ImprovedNow(st, h) /\ ~i],
        progress |-> p,
        improvement |-> i]

\* TimedUpdate.final: the closing emission of the most recent state.
TimedUpdateFinal(h) == <<[ShowImprovement(h) EXCEPT !.final = TRUE]>>

----------------------------------------------------------------------------
\* fit_thread.GUIMonitor around ConvergenceMonitor.

\* ConvergenceMonitor: the rolling record, here the number of records seen
\* and the latest best value; progress() is its summary.
ConvergenceInit == [n |-> 0, best |-> Infinity]
ConvergenceCall(c, h) == [n |-> c.n + 1, best |-> h.value]
ConvergenceProgress(c) == c.n

GUIMonitorInit == [time |-> 0, inner |-> ConvergenceInit]

GUIMonitorEvent(st, h, fin) ==
    [Event("progress", "convergence_update", MonitorProblem, h, fin)
        EXCEPT !.summary = ConvergenceProgress(st.inner), !.step = 0,
               !.value = 0, !.point = <<>>]

\* As GUIMonitorDue, but measured from the start instead of from self.time.
GUIMonitorDueMutant(st, h, rate) == h.time >= rate
GUIMonitorDue(st, h, rate) == h.time >= st.time + rate

\* As GUIMonitorCall, but the wrapped monitor is called only when an event
\* is due.
GUIMonitorCallMutant(st, h, rate) ==
    LET st1 == [st EXCEPT !.inner = ConvergenceCall(st.inner, h)]
    IN IF GUIMonitorDue(st, h, rate)
       THEN [st |-> [st1 EXCEPT !.time = h.time],
             ev |-> <<GUIMonitorEvent(st1, h, FALSE)>>]
       ELSE [st |-> st, ev |-> <<>>]

\* self.monitor(history) comes first, then the test of the time.
GUIMonitorCall(st, h, rate) ==
    LET inner1 == ConvergenceCall(st.inner, h)
        st1 == [st EXCEPT !.inner = inner1]
    IN IF GUIMonitorDue(st, h, rate)
       THEN [st |-> [st1 EXCEPT !.time = h.time],
             ev |-> <<GUIMonitorEvent(st1, h, FALSE)>>]
       ELSE [st |-> st1, ev |-> <<>>]

GUIMonitorFinal(st, h) == <<GUIMonitorEvent(st, h, TRUE)>>

----------------------------------------------------------------------------
\* DreamMonitor.

\* state 0 is None, a positive state is an uncertainty-state blob.
DreamMonitorInit == [time |-> 0, state |-> 0]

DreamEvent(st, h, fin) ==
    [Event("progress", "uncertainty_update", MonitorProblem, h, fin)
        EXCEPT !.state = st.state, !.step = 0, !.value = 0, !.point = <<>>]

\* Reading history.uncertainty_state of a History without it raises.
DreamMonitorRaises(h) == ~h.has_ustate

\* As DreamMonitorCall, but the state is stored only when an event is posted.
DreamMonitorCallMutant(st, h, rate) ==
    IF h.time >= st.time + rate /\ h.has_ustate
    THEN [st |-> [time |-> h.time, state |-> h.ustate],
          ev |-> <<DreamEvent([st EXCEPT !.state = h.ustate], h, FALSE)>>]
    ELSE [st |-> st, ev |-> <<>>]

DreamMonitorCall(st, h, rate) ==
    LET st1 == [st EXCEPT !.state = h.ustate]
    IN IF h.time >= st.time + rate /\ h.has_ustate
       THEN [st |-> [st1 EXCEPT !.time = h.time],
             ev |-> <<DreamEvent(st1, h, FALSE)>>]
       ELSE [st |-> st1, ev |-> <<>>]

DreamMonitorFinalMutant(st, h) == <<DreamEvent(st, h, TRUE)>>
DreamMonitorFinal(st, h) ==
    IF st.state # 0 THEN <<DreamEvent(st, h, TRUE)>> ELSE <<>>

----------------------------------------------------------------------------
\* The evaluation mapper: map_fn(points) -> costs.

\* The cost of a point; the quadratic is (x - 3)^2.
Cost(fn, x) == IF fn = "quadratic" THEN (x - 3) * (x - 3) ELSE x

\* SerialMapper: in-process, one point after the other.
SerialMap(fn, points) == [i \in 1..Len(points) |-> Cost(fn, points[i])]

\* No batch is being evaluated.
NoBatch == [state |-> "idle", fn |-> "linear", points |-> <<>>, costs |-> <<>>,
            order |-> <<>>, out |-> <<>>]

\* MPMapper hands the batch to the pool: no point is evaluated yet. costs[i]
\* is -1 until the worker evaluating point i has completed.
SubmitBatch(fn, points) ==
    [state |-> "running", fn |-> fn, points |-> points,
     costs |-> [i \in 1..Len(points) |-> 0 - 1],
     order |-> <<>>, out |-> <<>>]

Pending(m) == {i \in 1..Len(m.points) : \A k \in 1..Len(m.order) : m.order[k] # i}

\* The results in completion order, as the workers returned them.
GatherMutant(m) == [k \in 1..Len(m.order) |-> m.costs[m.order[k]]]
\* The pool's map gathers the results in submission order.
Gather(m) == [i \in 1..Len(m.points) |-> m.costs[i]]

\* FitThread.run: "if True: mapper = MPMapper else: mapper = SerialMapper".
\* self.mapper, the constructor's argument, is not read.
SelectedMapperMutant(arg) == IF arg = "None" THEN "MPMapper" ELSE arg
SelectedMapper(arg) == "MPMapper"
\* mapper.start_mapper(problem, []) with the local problem, the deep copy.
StartMapper(kind) == [kind |-> kind, problem |-> "copy"]
NotStarted == [kind |-> "none", problem |-> "none"]

----------------------------------------------------------------------------
\* AppPanel: the status bar, the published messages and remember_best.

\* OnFit: 'Fit status: Running'.
PanelRunning == [status |-> "Running", published |-> 0, saved |-> 0, redrawn |-> 0]
\* No fit was started through AppPanel.OnFit.
PanelIdle == [status |-> "", published |-> 0, saved |-> 0, redrawn |-> 0]

\* event.data is None: the abort convention of the worker.
DataIsNone(ev) == ev.point = <<>>

\* remember_best: fitter.save, problem.save, then redraw(problem).
RememberBest(pn) == [pn EXCEPT !.saved = pn.saved + 1, !.redrawn = pn.redrawn + 1]

\* As OnFitResult, but without the test of event.data.
OnFitResultMutant(pn, ev) ==
    RememberBest([pn EXCEPT !.status = "Complete",
                            !.published = pn.published + 1])

\* OnFitResult: status 'Complete', "fit_complete" published, then
\* remember_best unless event.data is None.
OnFitResult(pn, ev) ==
    LET done == [pn EXCEPT !.status = "Complete",
                           !.published = pn.published + 1]
    IN IF DataIsNone(ev) THEN done ELSE RememberBest(done)

----------------------------------------------------------------------------
\* The state after construction.

Monitors == {"progress", "convergence", "uncertainty"}

InitCommon ==
    /\ orig = Orig0
    /\ snap = <<>>
    /\ edits = 0
    /\ hist = NoHist
    /\ prog = TimedUpdateInit
    /\ conv = GUIMonitorInit
    /\ dream = DreamMonitorInit
    /\ queue = <<>>
    /\ delivered = <<>>
    /\ finals = [m \in Monitors |-> 0]
    /\ result = [set |-> FALSE, point |-> <<>>, value |-> 0]
    /\ bgWrites = {}
    /\ uiTouched = {}
    /\ feed = <<>>
    /\ started = NotStarted

\* FitThread.__init__: the fields are stored and the thread is started.
InitFitThread ==
    /\ mapper = NoBatch
    /\ mapperArg = "None"
    /\ intervals = NoIntervals
    /\ panel = PanelIdle
    /\ route = "FitThread"
    /\ pc = "run"
    /\ options \in {"None", "dict"}
    /\ algKind \in {"blob", "none", "absent"}
    /\ cfg = [progress |-> 0, improvement |-> 0]

\* AppPanel.OnFit: a Worker is started on self.problem with app_panel.GUIMonitor.
InitWorker ==
    /\ mapper = NoBatch
    /\ mapperArg = "SerialMapper"
    /\ intervals = NoIntervals
    /\ panel = PanelRunning
    /\ route = "Worker"
    /\ pc = "w_fit"
    /\ options = "dict"
    /\ algKind = "none"
    /\ cfg = [progress |-> AppProgress, improvement |-> AppImprovement]

Init == InitCommon /\ (InitFitThread \/ InitWorker)

----------------------------------------------------------------------------
\* The algorithm: one History record per iteration.

UStateOf(kind, step) == IF kind = "blob" THEN step ELSE 0

NextRecord(h, dt, imp, kind) ==
    [step |-> h.step + 1,
     time |-> h.time + dt,
     value |-> h.value - imp,
     point |-> PointOf(h.value - imp),
     has_ustate |-> kind # "absent",
     ustate |-> UStateOf(kind, h.step + 1)]

\* FitThread.__init__ ends with self.start(): in every state of a fit started
\* by FitThread the background unit is already running.
BackgroundStarted == route = "FitThread"

\* The terminal event has been handled by the primary context.
TerminalDelivered ==
    \E i \in 1..Len(delivered) : delivered[i].kind \in {"complete", "result"}
InFlight == ~TerminalDelivered

----------------------------------------------------------------------------
\* FitThread.run, step by step.

\* deepcopy(self.problem) runs on the background thread, parameter by parameter.
DeepCopyFirst ==
    /\ route = "FitThread" /\ pc = "run"
    /\ snap' = <<orig[1]>>
    /\ pc' = "copy"
    /\ UNCHANGED <<route, options, algKind, cfg, orig, edits, hist, prog, conv,
                   dream, queue, delivered, finals, result, bgWrites, uiTouched, feed,
                   mapper,
                   mapperArg, started, intervals, panel>>

DeepCopyRest ==
    /\ route = "FitThread" /\ pc = "copy"
    /\ snap' = Append(snap, orig[2])
    /\ pc' = "driver"
    /\ UNCHANGED <<route, options, algKind, cfg, orig, edits, hist, prog, conv,
                   dream, queue, delivered, finals, result, bgWrites, uiTouched, feed,
                   mapper,
                   mapperArg, started, intervals, panel>>

\* FitDriver(..., mapper = mapper.start_mapper(problem, []), **self.options):
\* the mapper is started while the arguments are evaluated, then ** of None
\* raises TypeError in run.
MakeDriver ==
    /\ route = "FitThread" /\ pc = "driver"
    /\ started' = StartMapper(SelectedMapper(mapperArg))
    /\ pc' = IF options = "None" THEN "raised_config" ELSE "fit"
    /\ UNCHANGED <<route, options, algKind, cfg, orig, snap, edits, hist, prog,
                   conv, dream, queue, delivered, finals, result, bgWrites,
                   uiTouched, feed, mapper, mapperArg, intervals, panel>>

\* The events the first two monitors post for a record.
ProgressEvents(r, h) ==
    (IF r.progress THEN <<ShowProgress(h)>> ELSE <<>>)
        \o (IF r.improvement THEN <<ShowImprovement(h)>> ELSE <<>>)

\* One iteration inside driver.fit(): the algorithm evaluates on the private
\* copy, produces a record, and the record goes to every monitor in
\* registration order. DreamMonitor raises on a History without
\* uncertainty_state, which ends driver.fit() and run with it.
FitStep ==
    /\ route = "FitThread" /\ pc = "fit"
    /\ hist.step < MaxSteps
    /\ \E dt \in DtSet, imp \in {0, 1} :
        LET h == NextRecord(hist, dt, imp, algKind)
            p == TimedUpdateCall(prog, h, ProgressInterval(cfg.progress),
                                 ImprovementInterval(cfg.improvement))
            c == GUIMonitorCall(conv, h, GUIMonitorRate(ConvergenceRate))
            d == DreamMonitorCall(dream, h, DreamMonitorRate(UncertaintyRate))
        IN /\ hist' = h
           /\ feed' = Append(feed, [time |-> h.time, value |-> h.value])
           /\ snap' = h.point
           /\ bgWrites' = bgWrites \cup {"copy"}
           /\ prog' = p.st
           /\ conv' = c.st
           /\ IF DreamMonitorRaises(h)
              THEN /\ dream' = dream
                   /\ queue' = PostEvent(queue, ProgressEvents(p, h) \o c.ev)
                   /\ pc' = "raised_monitor"
              ELSE /\ dream' = d.st
                   /\ queue' = PostEvent(queue,
                                         ProgressEvents(p, h) \o c.ev \o d.ev)
                   /\ pc' = "fit"
    /\ UNCHANGED <<route, options, algKind, cfg, orig, edits, delivered, finals,
                   result, uiTouched,
                   mapper,
                   mapperArg, started, intervals, panel>>

\* driver.fit() returns the best point and value.
FitReturn ==
    /\ route = "FitThread" /\ pc = "fit"
    /\ result' = [set |-> TRUE, point |-> hist.point, value |-> hist.value]
    /\ pc' = "finals"
    /\ UNCHANGED <<route, options, algKind, cfg, orig, snap, edits, hist, prog,
                   conv, dream, queue, delivered, finals, bgWrites, uiTouched, feed,
                   mapper,
                   mapperArg, started, intervals, panel>>

\* The algorithm raises, or a batch of the mapper fails and map_fn raises
\* inside it: driver.fit() does not return and run has no handler, so the
\* thread ends there.
FitRaise ==
    /\ route = "FitThread" /\ pc = "fit"
    /\ pc' \in {"raised_algorithm", "raised_worker"}
    /\ UNCHANGED <<route, options, algKind, cfg, orig, snap, edits, hist, prog,
                   conv, dream, queue, delivered, finals, result, bgWrites,
                   uiTouched, feed,
                   mapper,
                   mapperArg, started, intervals, panel>>

\* The final calls in the opposite order.
FinalEventsMutant ==
    DreamMonitorFinal(dream, hist) \o GUIMonitorFinal(conv, hist)
        \o TimedUpdateFinal(hist)

\* for M in monitors: if hasattr(M, 'final'): M.final()
FinalEvents ==
    TimedUpdateFinal(hist) \o GUIMonitorFinal(conv, hist)
        \o DreamMonitorFinal(dream, hist)

RunFinals ==
    /\ route = "FitThread" /\ pc = "finals"
    /\ finals' = [m \in Monitors |-> finals[m] + 1]
    /\ queue' = PostEvent(queue, FinalEvents)
    /\ pc' = "complete"
    /\ UNCHANGED <<route, options, algKind, cfg, orig, snap, edits, hist, prog,
                   conv, dream, delivered, result, bgWrites, uiTouched, feed,
                   mapper,
                   mapperArg, started, intervals, panel>>

\* A complete event that always carries the null pair.
CompleteEventMutant(r) ==
    [kind |-> "complete", message |-> "complete", problem |-> MonitorProblem,
     step |-> 0, value |-> 0, point |-> <<>>, state |-> 0,
     summary |-> 0, rec |-> hist.step, final |-> TRUE]

\* FitCompleteEvent(problem=self.problem, point=x, value=fx)
CompleteEvent(r) ==
    [kind |-> "complete", message |-> "complete", problem |-> MonitorProblem,
     step |-> 0, value |-> r.value, point |-> r.point, state |-> 0,
     summary |-> 0, rec |-> hist.step, final |-> TRUE]

PostComplete ==
    /\ route = "FitThread" /\ pc = "complete"
    /\ queue' = PostEvent(queue, <<CompleteEvent(result)>>)
    /\ pc' = "done"
    /\ UNCHANGED <<route, options, algKind, cfg, orig, snap, edits, hist, prog,
                   conv, dream, delivered, finals, result, bgWrites, uiTouched, feed,
                   mapper,
                   mapperArg, started, intervals, panel>>

----------------------------------------------------------------------------
\* The fit AppPanel.OnFit starts: Worker(self, self.problem, fn=self.fitter)
\* with moniter = GUIMonitor(self.problem). OnFit makes no copy (its deepcopy
\* is commented out): the worker and the monitor are given self.problem.

\* self.problem.setp(history.point[0]): the new values of self.problem.
AppSetp(h) == h.point

AppEvents(r, h) ==
    (IF r.progress THEN <<AppShowProgress(h)>> ELSE <<>>)
        \o (IF r.improvement THEN <<AppShowImprovement(h)>> ELSE <<>>)

\* One iteration of the worker's fit: the record goes to app_panel.GUIMonitor;
\* its show_improvement does self.problem.setp(history.point[0]) on the
\* worker thread before handing "update_plot" to wx.CallAfter.
WorkerStep ==
    /\ route = "Worker" /\ pc = "w_fit"
    /\ hist.step < MaxSteps
    /\ \E dt \in DtSet, imp \in {0, 1} :
        LET h == NextRecord(hist, dt, imp, algKind)
            p == TimedUpdateCall(prog, h, Seconds(cfg.progress),
                                 Seconds(cfg.improvement))
        IN /\ hist' = h
           /\ feed' = Append(feed, [time |-> h.time, value |-> h.value])
           /\ prog' = p.st
           /\ orig' = IF p.improvement THEN AppSetp(h) ELSE orig
           /\ bgWrites' = IF p.improvement THEN bgWrites \cup {"orig"}
                          ELSE bgWrites
           /\ queue' = PostEvent(queue, AppEvents(p, h))
    /\ UNCHANGED <<route, pc, options, algKind, cfg, snap, edits, conv, dream,
                   delivered, finals, result, uiTouched,
                   mapper,
                   mapperArg, started, intervals, panel>>

\* The worker ends and posts its result event: the best point, or None
\* (an empty point here) when the computation failed or was aborted.
ResultEvent(ok) ==
    [kind |-> "result", message |-> "result", problem |-> "none", step |-> 0,
     value |-> IF ok THEN hist.value ELSE 0,
     point |-> IF ok THEN hist.point ELSE <<>>, state |-> 0, summary |-> 0,
     rec |-> hist.step, final |-> TRUE]

WorkerFinish ==
    /\ route = "Worker" /\ pc = "w_fit"
    /\ \E ok \in BOOLEAN :
        /\ result' = [set |-> ok, point |-> IF ok THEN hist.point ELSE <<>>,
                      value |-> IF ok THEN hist.value ELSE 0]
        /\ queue' = PostEvent(queue, <<ResultEvent(ok)>>)
    /\ pc' = "done"
    /\ UNCHANGED <<route, options, algKind, cfg, orig, snap, edits, hist, prog,
                   conv, dream, delivered, finals, bgWrites, uiTouched, feed,
                   mapper,
                   mapperArg, started, intervals, panel>>

----------------------------------------------------------------------------
\* The primary context.

\* The user changes a parameter: OnUpdateModel updates and redraws
\* self.problem, the original.
UserEdit ==
    /\ route \in {"FitThread", "Worker"}
    /\ edits < MaxEdits
    /\ \E i \in ParamIdx, v \in ParamValues :
        /\ orig[i] # v
        /\ orig' = [orig EXCEPT ![i] = v]
    /\ edits' = edits + 1
    /\ uiTouched' = IF InFlight THEN uiTouched \cup {"orig"} ELSE uiTouched
    /\ UNCHANGED <<route, pc, options, algKind, cfg, snap, hist, prog, conv,
                   dream, queue, delivered, finals, result, bgWrites, feed,
                   mapper,
                   mapperArg, started, intervals, panel>>

\* The Problem objects the handler of an event reads: a FitProgressEvent is
\* matched by its problem, OnUpdatePlot redraws self.problem, OnUpdateDisplay
\* only forwards the text.
HandlerTouches(ev) ==
    IF ev.kind = "progress" THEN {ev.problem}
    ELSE IF ev.message = "update_plot" THEN {"orig"}
    ELSE {}

\* The event loop of the primary context handles the oldest posted event;
\* the result event of the worker goes to OnFitResult.
Deliver ==
    /\ route \in {"FitThread", "Worker"}
    /\ queue # <<>>
    /\ delivered' = Append(delivered, Head(queue))
    /\ queue' = Tail(queue)
    /\ uiTouched' = IF InFlight THEN uiTouched \cup HandlerTouches(Head(queue))
                    ELSE uiTouched
    /\ panel' = IF Head(queue).kind = "result"
                THEN OnFitResult(panel, Head(queue)) ELSE panel
    /\ UNCHANGED <<route, pc, options, algKind, cfg, orig, snap, edits, hist,
                   prog, conv, dream, finals, result, bgWrites, feed,
                   mapper, mapperArg, started, intervals>>

----------------------------------------------------------------------------
\* The monitors FitThread registers, constructed directly and fed a synthetic
\* History stream with known, non-decreasing timestamps, then finalized.

InitFeed ==
    /\ mapper = NoBatch
    /\ mapperArg = "None"
    /\ intervals = NoIntervals
    /\ panel = PanelIdle
    /\ route = "Harness"
    /\ pc = "feed"
    /\ options = "dict"
    /\ algKind \in {"blob", "none", "absent"}
    /\ cfg \in FeedConfigs

FeedRecord ==
    /\ route = "Harness" /\ pc = "feed"
    /\ hist.step < MaxFeed
    /\ \E dt \in FeedDtSet, imp \in {0, 1} :
        LET h == NextRecord(hist, dt, imp, algKind)
            p == TimedUpdateCall(prog, h, ProgressInterval(cfg.progress),
                                 ImprovementInterval(cfg.improvement))
            c == GUIMonitorCall(conv, h, GUIMonitorRate(ConvergenceRate))
            d == DreamMonitorCall(dream, h, DreamMonitorRate(UncertaintyRate))
        IN /\ hist' = h
           /\ feed' = Append(feed, [time |-> h.time, value |-> h.value])
           /\ prog' = p.st
           /\ conv' = c.st
           /\ IF DreamMonitorRaises(h)
              THEN /\ dream' = dream
                   /\ queue' = PostEvent(queue, ProgressEvents(p, h) \o c.ev)
                   /\ pc' = "raised_monitor"
              ELSE /\ dream' = d.st
                   /\ queue' = PostEvent(queue,
                                         ProgressEvents(p, h) \o c.ev \o d.ev)
                   /\ pc' = "feed"
    /\ UNCHANGED <<route, options, algKind, cfg, orig, snap, edits, delivered,
                   finals, result, bgWrites, uiTouched,
                   mapper,
                   mapperArg, started, intervals, panel>>

FeedFinalize ==
    /\ route = "Harness" /\ pc = "feed"
    /\ finals' = [m \in Monitors |-> finals[m] + 1]
    /\ queue' = PostEvent(queue, FinalEvents)
    /\ pc' = "done"
    /\ UNCHANGED <<route, options, algKind, cfg, orig, snap, edits, hist, prog,
                   conv, dream, delivered, result, bgWrites, uiTouched, feed,
                   mapper,
                   mapperArg, started, intervals, panel>>

InitMonitors == InitCommon /\ InitFeed
NextMonitors == FeedRecord \/ FeedFinalize
SpecMonitors == InitMonitors /\ [][NextMonitors]_vars

----------------------------------------------------------------------------
\* One batch through the Parallel mapper: the workers of the pool complete
\* in any order, or one of them fails.

InitBatch ==
    /\ mapperArg = "None"
    /\ intervals = NoIntervals
    /\ panel = PanelIdle
    /\ route = "Mapper"
    /\ pc = "map"
    /\ options = "dict"
    /\ algKind = "none"
    /\ cfg = [progress |-> 0, improvement |-> 0]
    /\ \E n \in 0..MaxBatch, fn \in CostFunctions :
        \E points \in [1..n -> BatchValues] :
            mapper = SubmitBatch(fn, points)

\* A worker finishes the evaluation of one pending point.
PoolComplete ==
    /\ route = "Mapper" /\ mapper.state = "running"
    /\ \E i \in Pending(mapper) :
        mapper' = [mapper EXCEPT
                      !.costs[i] = Cost(mapper.fn, mapper.points[i]),
                      !.order = Append(mapper.order, i)]
    /\ UNCHANGED <<route, pc, options, algKind, cfg, orig, snap, edits, hist,
                   prog, conv, dream, queue, delivered, finals, result,
                   bgWrites, uiTouched, feed,
                   mapperArg, started, intervals, panel>>

\* A worker raises (or its process dies): the whole batch fails, map_fn
\* raises and returns no costs at all.
PoolFail ==
    /\ route = "Mapper" /\ mapper.state = "running"
    /\ Pending(mapper) # {}
    /\ mapper' = [mapper EXCEPT !.state = "failed"]
    /\ UNCHANGED <<route, pc, options, algKind, cfg, orig, snap, edits, hist,
                   prog, conv, dream, queue, delivered, finals, result,
                   bgWrites, uiTouched, feed,
                   mapperArg, started, intervals, panel>>

\* Every point is evaluated: map_fn returns.
PoolReturn ==
    /\ route = "Mapper" /\ mapper.state = "running"
    /\ Pending(mapper) = {}
    /\ mapper' = [mapper EXCEPT !.state = "returned", !.out = Gather(mapper)]
    /\ UNCHANGED <<route, pc, options, algKind, cfg, orig, snap, edits, hist,
                   prog, conv, dream, queue, delivered, finals, result,
                   bgWrites, uiTouched, feed,
                   mapperArg, started, intervals, panel>>

InitMapper == InitCommon /\ InitBatch
NextMapper == PoolComplete \/ PoolFail \/ PoolReturn
SpecMapper == InitMapper /\ [][NextMapper]_vars

----------------------------------------------------------------------------
\* The monitors constructed directly with any interval arguments.

InitConstruct ==
    /\ mapper = NoBatch
    /\ mapperArg = "None"
    /\ panel = PanelIdle
    /\ route = "Construct"
    /\ pc = "args"
    /\ options = "dict"
    /\ algKind = "none"
    /\ cfg = [progress |-> 0, improvement |-> 0]
    /\ \E args \in [IntervalNames -> RateArgs] :
        intervals = [NoIntervals EXCEPT !.args = args]

\* GUIProgressMonitor(win, problem, progress, improvement),
\* GUIMonitor(..., rate) and DreamMonitor(..., rate).
ConstructMonitors ==
    /\ route = "Construct" /\ pc = "args"
    /\ intervals' = [intervals EXCEPT !.built = TRUE,
                                       !.eff = EffectiveIntervals(intervals.args)]
    /\ pc' = "built"
    /\ UNCHANGED <<route, options, algKind, cfg, orig, snap, edits, hist, prog,
                   conv, dream, queue, delivered, finals, result, bgWrites,
                   uiTouched, feed, mapper, mapperArg, started, panel>>

InitIntervals == InitCommon /\ InitConstruct
NextIntervals == ConstructMonitors
SpecIntervals == InitIntervals /\ [][NextIntervals]_vars

----------------------------------------------------------------------------
\* FitThread.run on its own, for every mapper argument of the constructor.

InitRun ==
    /\ InitCommon
    /\ mapper = NoBatch
    /\ mapperArg \in MapperArgs
    /\ intervals = NoIntervals
    /\ panel = PanelIdle
    /\ route = "FitThread"
    /\ pc = "run"
    /\ options \in {"None", "dict"}
    /\ algKind \in {"blob", "none", "absent"}
    /\ cfg = [progress |-> 0, improvement |-> 0]

NextRun ==
    \/ DeepCopyFirst
    \/ DeepCopyRest
    \/ MakeDriver
    \/ FitStep
    \/ FitReturn
    \/ FitRaise
    \/ RunFinals
    \/ PostComplete

SpecRun == InitRun /\ [][NextRun]_vars

----------------------------------------------------------------------------

Next ==
    \/ DeepCopyFirst
    \/ DeepCopyRest
    \/ MakeDriver
    \/ FitStep
    \/ FitReturn
    \/ FitRaise
    \/ RunFinals
    \/ PostComplete
    \/ WorkerStep
    \/ WorkerFinish
    \/ UserEdit
    \/ Deliver

Spec == Init /\ [][Next]_vars

\* The thread goes on after driver.fit() has returned (the final calls and
\* the posting do not block) and the event loop of the primary context
\* handles every posted event.
FairSpec ==
    Spec /\ WF_vars(RunFinals) /\ WF_vars(PostComplete) /\ WF_vars(Deliver)

----------------------------------------------------------------------------
\* Vocabulary of the properties.

\* Every event posted so far, in posting order.
Posted == delivered \o queue
IndicesOf(q, P(_)) == {i \in 1..Len(q) : P(q[i])}
IsComplete(e) == e.kind = "complete"
IsSentinel(e) == e.kind = "complete" /\ e.point = <<>>
CompleteCount == Cardinality(IndicesOf(Posted, IsComplete))
\* run has ended, by return or by an exception.
Raised ==
    pc \in {"raised_config", "raised_monitor", "raised_algorithm", "raised_worker"}
RunEnded == pc = "done" \/ Raised

----------------------------------------------------------------------------
\* C1: every run of FitThread posts exactly one complete event, never more
\* than one and, once the run has ended on whatever path (return, exception
\* in the algorithm, failed batch, configuration failure), not zero.
C1_ExactlyOneComplete ==
    route = "FitThread" =>
        /\ CompleteCount <= 1
        /\ RunEnded => CompleteCount = 1

\* C2: when the algorithm's run raised, the run still ends with a complete
\* event carrying the null point and value, and no exception ends run.
C2_FailureDeliversSentinel ==
    (route = "FitThread" /\ pc = "raised_algorithm") =>
        \E i \in 1..Len(Posted) : IsSentinel(Posted[i])

\* C3: final() of every registered monitor is invoked exactly once per run,
\* after the algorithm's run has ended, also when the algorithm raised.
C3_FinalizeExactlyOnce ==
    route = "FitThread" =>
        \A m \in Monitors :
            /\ finals[m] <= 1
            /\ pc = "fit" => finals[m] = 0
            /\ pc \in {"done", "raised_algorithm"} => finals[m] = 1

\* C4: nothing that runs on the background thread (driver, mapper, monitor
\* callbacks) writes the caller's original Problem.
C4_OriginalNotWritten == "orig" \notin bgWrites

\* C5: the deep copy is complete before the background unit starts, so it is
\* the original as it was when the fit was started, whatever the primary
\* context edits afterwards.
C5_SnapshotBeforeStart ==
    route = "FitThread" =>
        /\ Len(snap) = Cardinality(ParamIdx)
        /\ pc = "driver" => snap = Orig0

\* C6: while a fit is in flight no Problem object written by the background
\* unit is read or written by the primary context.
C6_NoSharedProblem == InFlight => bgWrites \cap uiTouched = {}

\* C7: monitor events reach the primary context in the order of the History
\* records they were made from.
IsMonitorEvent(e) == e.kind = "progress"
C7_DeliveryOrder ==
    route = "FitThread" =>
        \A i, j \in IndicesOf(delivered, IsMonitorEvent) :
            i < j => delivered[i].rec <= delivered[j].rec

\* Events of three different records, from different monitors, were delivered
\* while a later one is still queued.
C7_Witness ==
    /\ route = "FitThread"
    /\ queue # <<>>
    /\ \E i, j, k \in IndicesOf(delivered, IsMonitorEvent) :
        /\ i < j /\ j < k
        /\ delivered[i].rec < delivered[j].rec
        /\ delivered[j].rec < delivered[k].rec
        /\ delivered[i].message # delivered[j].message

----------------------------------------------------------------------------
\* The monitor properties, on the synthetic stream.

TimeOf(e) == feed[e.rec].time
IsProgress(e) == e.message = "progress"
IsImprovement(e) == e.message = "improvement" /\ ~e.final
\* The configured intervals in ticks; not configured means the default.
ExpectedProgress ==
    Seconds(IF cfg.progress = 0 THEN PROGRESS_DELAY ELSE cfg.progress)
ExpectedImprovement ==
    Seconds(IF cfg.improvement = 0 THEN IMPROVEMENT_DELAY ELSE cfg.improvement)

\* C8: with non-decreasing timestamps any two progress emissions are at least
\* progress_interval of History.time apart.
C8_ProgressThrottle ==
    route = "Harness" =>
        \A i, j \in IndicesOf(queue, IsProgress) :
            i < j => TimeOf(queue[j]) - TimeOf(queue[i]) >= ExpectedProgress

\* Two progress emissions under the default interval, with records between
\* them that emitted nothing.
C8_Witness ==
    /\ route = "Harness" /\ cfg.progress = 0
    /\ \E i, j \in IndicesOf(queue, IsProgress) :
        i < j /\ queue[j].rec > queue[i].rec + 1

\* The improvement emission before position j of the queue, 0 if there is none.
PrevImprovement(j) ==
    LET before == {i \in IndicesOf(queue, IsImprovement) : i < j}
    IN IF before = {} THEN 0
       ELSE CHOOSE i \in before : \A k \in before : k <= i
\* The last improvement emission made from a record before record r.
LastImprovementBefore(r) ==
    LET before == {i \in IndicesOf(queue, IsImprovement) : queue[i].rec < r}
    IN IF before = {} THEN 0
       ELSE CHOOSE i \in before : \A k \in before : k <= i
EmittedValue(i) == IF i = 0 THEN Infinity ELSE feed[queue[i].rec].value
\* Record r is due: a better value than the last one emitted, outside the window.
ImprovementExpected(r) ==
    LET i == LastImprovementBefore(r)
    IN /\ feed[r].value < EmittedValue(i)
       /\ i # 0 => feed[r].time >= TimeOf(queue[i]) + ExpectedImprovement
ImprovementRecords == {queue[i].rec : i \in IndicesOf(queue, IsImprovement)}
\* The stream of the scenario: improving records at 0 s, 0.5 s, 2 s and 10 s.
ScenarioStream ==
    /\ cfg.improvement = 1
    /\ Len(feed) = 4
    /\ <<feed[1].time, feed[2].time, feed[3].time, feed[4].time>>
           = <<0, 1, Seconds(2), Seconds(10)>>
    /\ \A r \in 2..4 : feed[r].value < feed[r - 1].value

\* C9: an improvement emission happens only for a best value strictly better
\* than the one last emitted, at least improvement_interval after the last
\* emission, and carries the latest record; an improvement inside the window
\* is emitted with the first record after it. For the scenario stream the
\* emissions are at 0 s, 2 s and 10 s, not at 0.5 s.
C9_ImprovementThrottle ==
    route = "Harness" =>
        /\ \A j \in IndicesOf(queue, IsImprovement) :
            LET i == PrevImprovement(j)
            IN /\ feed[queue[j].rec].value < EmittedValue(i)
               /\ i # 0 =>
                    TimeOf(queue[j]) - TimeOf(queue[i]) >= ExpectedImprovement
               /\ queue[j].value = feed[queue[j].rec].value
               /\ queue[j].step = queue[j].rec
        /\ \A r \in 1..Len(feed) :
            ImprovementExpected(r) => r \in ImprovementRecords
        /\ ScenarioStream => ImprovementRecords = {1, 3, 4}

\* The scenario has been fed and finalized.
C9_Witness ==
    /\ route = "Harness" /\ pc = "done"
    /\ ScenarioStream
    /\ ImprovementRecords = {1, 3, 4}

----------------------------------------------------------------------------
\* The final emissions of a FitThread run.

HasFinal(msg) ==
    \E i \in 1..Len(Posted) : Posted[i].final /\ Posted[i].message = msg
HasPeriodic(msg) ==
    \E i \in 1..Len(Posted) : ~Posted[i].final /\ Posted[i].message = msg
FinalsDone == route = "FitThread" /\ pc \in {"complete", "done"}

\* C10 as stated: after the final calls every registered monitor has posted
\* a final event.
C10_EveryMonitorEmitsFinal ==
    FinalsDone =>
        /\ HasFinal("improvement")
        /\ HasFinal("convergence_update")
        /\ HasFinal("uncertainty_update")

\* C10 as amended: the progress/improvement monitor and the convergence
\* monitor always post a final event with their most recent state; the
\* uncertainty monitor posts its last stored state exactly when that state
\* is not None.
C10_FinalEmissions ==
    FinalsDone =>
        /\ \E i \in 1..Len(Posted) :
            /\ Posted[i].final /\ Posted[i].message = "improvement"
            /\ Posted[i].step = hist.step /\ Posted[i].value = hist.value
            /\ Posted[i].point = hist.point
        /\ \E i \in 1..Len(Posted) :
            /\ Posted[i].final /\ Posted[i].message = "convergence_update"
            /\ Posted[i].summary = hist.step
        /\ HasFinal("uncertainty_update") <=> dream.state # 0
        /\ \A i \in 1..Len(Posted) :
            (Posted[i].final /\ Posted[i].message = "uncertainty_update")
                => Posted[i].state = hist.ustate

\* A run in which neither the convergence nor the uncertainty cadence fired
\* and both monitors still posted their final state.
C10_Witness ==
    /\ FinalsDone
    /\ hist.step > 0
    /\ ~HasPeriodic("convergence_update") /\ HasFinal("convergence_update")
    /\ ~HasPeriodic("uncertainty_update") /\ HasFinal("uncertainty_update")

----------------------------------------------------------------------------
\* The cadence of GUIMonitor and DreamMonitor, on the synthetic stream.

IsPeriodic(e, msg) == e.message = msg /\ ~e.final
\* The records from which a periodic event with this message was posted.
PeriodicRecords(msg) ==
    {queue[i].rec : i \in {k \in 1..Len(queue) : IsPeriodic(queue[k], msg)}}
\* The monitor's last-emitted time when record r arrives: the time of the
\* latest earlier periodic emission, 0 before the first.
LastEmitted(msg, r) ==
    LET before == {q \in PeriodicRecords(msg) : q < r}
    IN IF before = {} THEN 0
       ELSE feed[CHOOSE q \in before : \A k \in before : k <= q].time
\* Every record that reached the monitor emitted exactly when it was due.
CadenceExact(msg, rate, n) ==
    \A r \in 1..n :
        (r \in PeriodicRecords(msg)) <=> (feed[r].time >= LastEmitted(msg, r) + rate)
\* The records DreamMonitor has processed: all but one it raised on.
DreamSeen == IF pc = "raised_monitor" THEN Len(feed) - 1 ELSE Len(feed)

\* C11: the uncertainty monitor stores the state of every record that has
\* one, posts uncertainty_update from a record exactly when History.time is
\* at least rate past its last emission, every uncertainty_update (periodic
\* or final) carries the state of the most recent record, and finalize posts
\* the last-seen state when one was seen, also if the cadence never fired.
C11_UncertaintyMonitor ==
    route = "Harness" =>
        /\ (hist.step > 0 /\ hist.has_ustate) => dream.state = hist.ustate
        /\ CadenceExact("uncertainty_update", Seconds(UncertaintyRate), DreamSeen)
        /\ \A i \in 1..Len(queue) :
            queue[i].message = "uncertainty_update" =>
                queue[i].state = UStateOf(algKind, queue[i].rec)
        /\ (pc = "done" /\ dream.state # 0) =>
            \E i \in 1..Len(queue) :
                /\ queue[i].message = "uncertainty_update" /\ queue[i].final
                /\ queue[i].state = hist.ustate

\* Several states were seen, one periodic event was posted from an earlier
\* record, and finalize posted the state of the last record.
C11_Witness ==
    /\ route = "Harness" /\ pc = "done" /\ algKind = "blob"
    /\ PeriodicRecords("uncertainty_update") # {}
    /\ hist.step \notin PeriodicRecords("uncertainty_update")
    /\ \E i \in 1..Len(queue) :
        /\ queue[i].message = "uncertainty_update" /\ queue[i].final
        /\ queue[i].state = hist.step

----------------------------------------------------------------------------
\* C12: whatever order the pool workers complete in, the Parallel mapper
\* returns what the Serial mapper returns: one cost per input point, in
\* input order.
C12_MappersAgree ==
    (route = "Mapper" /\ mapper.state = "returned") =>
        /\ Len(mapper.out) = Len(mapper.points)
        /\ mapper.out = SerialMap(mapper.fn, mapper.points)

\* A batch of points with different costs has returned after its workers
\* completed in another order than they were submitted in.
C12_Witness ==
    /\ route = "Mapper" /\ mapper.state = "returned"
    /\ Len(mapper.points) = MaxBatch
    /\ mapper.order[1] = MaxBatch
    /\ mapper.out[1] # mapper.out[MaxBatch]

\* C13: when a worker of the Parallel mapper fails the batch returns no
\* costs, and the run ends with a single complete event carrying the null
\* point and value, after exactly one final() call on each monitor.
C13_WorkerFailureAborts ==
    /\ mapper.state = "failed" => mapper.out = <<>>
    /\ (route = "FitThread" /\ pc = "raised_worker") =>
        /\ \A m \in Monitors : finals[m] = 1
        /\ CompleteCount = 1
        /\ \E i \in 1..Len(Posted) : IsSentinel(Posted[i])

\* C14: a configuration error is raised before the background unit starts,
\* with no background thread running and no work done by it.
C14_ConfigurationFailsFast ==
    pc = "raised_config" => (~BackgroundStarted /\ snap = <<>>)

\* C15: the payload of every posted event is a snapshot of the record it was
\* posted from, whatever the algorithm did to the History afterwards, and no
\* monitor callback writes an object owned by the primary context.
C15_EventsAreSnapshots ==
    /\ \A i \in 1..Len(Posted) :
        LET e == Posted[i]
        IN (e.kind = "progress" /\ e.rec > 0) =>
            /\ e.message \in {"progress", "improvement"} =>
                (e.value = feed[e.rec].value
                    /\ e.point = PointOf(feed[e.rec].value))
            /\ e.message = "uncertainty_update" =>
                e.state = UStateOf(algKind, e.rec)
    /\ \A obj \in bgWrites : obj # "orig"

\* C16: the convergence GUIMonitor posts from a record exactly when
\* History.time >= last_emitted + rate and then sets last_emitted to that
\* time; periodic emissions are at least rate apart and none comes before
\* History.time has reached rate.
C16_ConvergenceCadence ==
    route = "Harness" =>
        /\ CadenceExact("convergence_update", Seconds(ConvergenceRate), Len(feed))
        /\ conv.time = LastEmitted("convergence_update", Len(feed) + 1)
        /\ \A r1, r2 \in PeriodicRecords("convergence_update") :
            r1 < r2 => feed[r2].time - feed[r1].time >= Seconds(ConvergenceRate)
        /\ \A r \in PeriodicRecords("convergence_update") :
            feed[r].time >= Seconds(ConvergenceRate)

\* Two periodic convergence events with a silent record between them, after
\* a first record that was too early to emit.
C16_Witness ==
    /\ route = "Harness"
    /\ 1 \notin PeriodicRecords("convergence_update")
    /\ \E r1, r2 \in PeriodicRecords("convergence_update") : r2 > r1 + 1

\* The position of a monitor in the list FitThread.run registers.
Registration(msg) ==
    IF msg = "improvement" THEN 1
    ELSE IF msg = "convergence_update" THEN 2 ELSE 3
IsFinalEmission(e) == e.kind = "progress" /\ e.final

\* C17: the final emissions are posted after driver.fit() has returned, after
\* every periodic event, in registration order and before the complete
\* event; no monitor event follows the complete event.
C17_FinalsBeforeComplete ==
    route = "FitThread" =>
        \A i, j \in 1..Len(Posted) :
            /\ IsFinalEmission(Posted[i]) => result.set
            /\ (IsMonitorEvent(Posted[i]) /\ ~Posted[i].final
                    /\ IsFinalEmission(Posted[j])) => i < j
            /\ (IsFinalEmission(Posted[i]) /\ IsFinalEmission(Posted[j]) /\ i < j)
                => Registration(Posted[i].message) < Registration(Posted[j].message)
            /\ (IsMonitorEvent(Posted[i]) /\ IsComplete(Posted[j])) => i < j

\* A finished run with periodic events, all three final emissions and the
\* complete event.
C17_Witness ==
    /\ route = "FitThread" /\ pc = "done"
    /\ HasPeriodic("convergence_update") /\ HasPeriodic("progress")
    /\ HasFinal("improvement") /\ HasFinal("convergence_update")
    /\ HasFinal("uncertainty_update")

CarriesResult(e) ==
    e.kind = "complete" /\ e.point = result.point /\ e.value = result.value

\* C18: once driver.fit() has returned (x, fx), a complete event is eventually
\* delivered, and every complete event carries exactly that point and value.
C18_ResultDelivered ==
    /\ [](\A i \in 1..Len(Posted) : IsComplete(Posted[i]) =>
            (result.set /\ CarriesResult(Posted[i])))
    /\ (route = "FitThread" /\ result.set)
          ~> (\E i \in 1..Len(delivered) : CarriesResult(delivered[i]))

\* The complete event of a run with an improved result has been delivered.
C18_Witness ==
    /\ route = "FitThread" /\ result.set /\ result.value < StartValue
    /\ \E i \in 1..Len(delivered) : CarriesResult(delivered[i])

\* C19: every event FitThread and its monitors post refers to the caller's
\* original Problem; the private copy is in no event.
C19_EventsReferToOriginal ==
    route = "FitThread" =>
        \A i \in 1..Len(Posted) :
            Posted[i].problem = "orig" /\ Posted[i].problem # "copy"

\* Events of all five kinds have been posted.
C19_Witness ==
    /\ route = "FitThread"
    /\ \A msg \in {"progress", "improvement", "convergence_update",
                   "uncertainty_update", "complete"} :
        \E i \in 1..Len(Posted) : Posted[i].message = msg

\* C20: for an algorithm whose History has no uncertainty state the
\* uncertainty monitor does not fail and posts no uncertainty_update, neither
\* from a record nor from final.
C20_NoStateNoFailure ==
    (route = "FitThread" /\ algKind # "blob") =>
        /\ pc # "raised_monitor"
        /\ \A i \in 1..Len(Posted) : Posted[i].message # "uncertainty_update"

IsResult(e) == e.kind = "result"

\* C21: OnFitResult sets the status to 'Complete' and publishes fit_complete
\* once for the result event; remember_best (save and redraw) runs only when
\* the event carries a result, and nothing is saved for the abort sentinel.
C21_ResultHandling ==
    route = "Worker" =>
        LET rs == IndicesOf(delivered, IsResult)
        IN /\ panel.published = Cardinality(rs)
           /\ rs = {} => panel = PanelRunning
           /\ rs # {} =>
               /\ panel.status = "Complete"
               /\ panel.published = 1
               /\ panel.saved = (IF result.set THEN 1 ELSE 0)
               /\ panel.redrawn = panel.saved

\* The result event of a fit aborted after some records has been handled.
C21_Witness ==
    /\ route = "Worker" /\ hist.step >= 1 /\ ~result.set
    /\ \E i \in 1..Len(delivered) : IsResult(delivered[i])
    /\ panel.status = "Complete" /\ panel.saved = 0

\* C22: whatever mapper the constructor was given, run starts MPMapper, on
\* the private copy; the run never has another mapper.
C22_AlwaysParallel ==
    route = "FitThread" =>
        /\ started \in {NotStarted, [kind |-> "MPMapper", problem |-> "copy"]}
        /\ pc \notin {"run", "copy", "driver"} =>
            started = [kind |-> "MPMapper", problem |-> "copy"]

\* A finished run of a FitThread that was given SerialMapper.
C22_Witness ==
    /\ route = "FitThread" /\ mapperArg = "SerialMapper" /\ pc = "done"
    /\ started.kind = "MPMapper"

\* C23: the wrapped convergence monitor has seen every record GUIMonitor
\* received, whether or not an event was posted for it, and a posted summary
\* includes the record it was posted from.
C23_InnerSeesEveryRecord ==
    route = "Harness" =>
        /\ conv.inner.n = Len(feed)
        /\ Len(feed) > 0 => conv.inner.best = feed[Len(feed)].value
        /\ \A i \in 1..Len(Posted) :
            Posted[i].message = "convergence_update" =>
                Posted[i].summary = Posted[i].rec

\* Three or more records, the first one throttled, a later one emitted.
C23_Witness ==
    /\ route = "Harness" /\ Len(feed) >= 3
    /\ 1 \notin PeriodicRecords("convergence_update")
    /\ PeriodicRecords("convergence_update") # {}
    /\ Cardinality(PeriodicRecords("convergence_update")) < Len(feed) - 1

DefaultOf(n) ==
    IF n \in {"progress", "improvement"} THEN 5
    ELSE IF n = "convergence" THEN 10 ELSE 60

====
